---- MODULE Spec2Model ----
(***************************************************************************)
(* Model of aqua_repo_breakdown.py: the scope-membership aggregation       *)
(* (build_repository_scope_map) and the views derived from its map         *)
(* (filter_repositories).  The collaborators get_all_repositories and      *)
(* get_app_scopes are the environment: each call either raises or returns  *)
(* a list, chosen when the call is made.                                   *)
(***************************************************************************)
EXTENDS Integers, Sequences, FiniteSets, TLC

(* ---------------------------- bounds ----------------------------------- *)
\* longest full inventory returned by get_all_repositories
MaxRepos == 2
\* longest scope listing returned by get_app_scopes
MaxScopes == 2
\* longest list returned by one per-scope lookup
MaxLookup == 2
\* most global options on a command line
MaxOptions == 2
\* most other arguments on a command line
MaxWords == 2
\* most entries of a repository map handed to the breakdown statistics
MaxEntries == 3

(* ------------------------- values of the model ------------------------- *)
\* a dict key that is missing from a record
Absent == "<absent>"
\* Python's None
None == "<None>"

\* Repository records the Fetcher may return.  The first two are different
\* repositories whose "registry/name" strings coincide; the third has no
\* registry field.
RepoRecords ==
    { [registry |-> "a/b",  name |-> "c"],
      [registry |-> "a",    name |-> "b/c"],
      [registry |-> Absent, name |-> "c"] }

\* Scope descriptors the scope listing may contain.
ScopeDescriptors == { [name |-> "Global"], [name |-> "team-a"], [name |-> "team-b"] }

SeqsUpTo(S, n) == UNION { [1..k -> S] : k \in 0..n }

Range(s) == { s[x] : x \in 1..Len(s) }

\* Outcome of a collaborator call: it raised, or it returned a list.
Raised == [status |-> "error", value |-> <<>>]
Returned(list) == [status |-> "ok", value |-> list]

InventoryOutcomes == {Raised} \cup { Returned(l) : l \in SeqsUpTo(RepoRecords, MaxRepos) }
ScopesOutcomes    == {Raised} \cup { Returned(l) : l \in SeqsUpTo(ScopeDescriptors, MaxScopes) }
LookupOutcomes    == {Raised} \cup { Returned(l) : l \in SeqsUpTo(RepoRecords, MaxLookup) }

(* ------------------------------ state ---------------------------------- *)
VARIABLES
    pc,           \* position in build_repository_scope_map / its caller
    verbose,      \* argument verbose
    debug,        \* argument debug
    all_repos,    \* the full inventory, once fetched
    ri,           \* index of the step-1 loop over all_repos
    repo_map,     \* the dict being built: entries in insertion order
    all_scopes,   \* the scope listing, once fetched
    app_scopes,   \* the listing without the descriptors named "Global"
    i,            \* index of the step-3 loop over app_scopes
    scope_repos,  \* list returned by the lookup in progress
    j,            \* index of the inner loop over scope_repos
    lookup,       \* outcome of the lookup of each scope name asked so far
    calls,        \* collaborator calls issued, in order
    out,          \* lines printed to the primary output stream
    error,        \* the fetch whose exception propagated to the caller, if any
    filter_type,  \* arguments of the filter_repositories call
    filter_scope,
    filtered,     \* what filter_repositories returned
    command,      \* what runs: the aggregation alone, repo list, repo breakdown
    scope_arg,    \* argument scope of repo_list
    registry_arg, \* argument registry of repo_list
    orphan,       \* argument orphan of repo_list
    all_scopes_flag,  \* argument all_scopes of repo_list
    csv_file,     \* argument csv_file of repo_breakdown
    json_file,    \* argument json_file of repo_breakdown
    breakdown,    \* the breakdown dict of repo_breakdown
    output,       \* the handler's output statements still to execute, in order
    printed,      \* what the result prints have written to the primary output
    written,      \* what the exports have written to files
    exit_code,    \* argument of sys.exit, once the process has exited
    interrupted,  \* a KeyboardInterrupt has been delivered
    options,      \* the command line's global options, one unit per option
    words,        \* the command line's other arguments
    raw_args,     \* sys.argv[1:]: options and words as they were typed
    filtered_args,\* arguments left for the command parser
    global_args,  \* the dict of global options
    ai            \* index i of the global-option scan

\* locals of build_repository_scope_map and of the caller of filter_repositories
agg_vars == <<pc, verbose, debug, all_repos, ri, repo_map, all_scopes, app_scopes, i,
              scope_repos, j, lookup, calls, out, error, filter_type, filter_scope,
              filtered>>
\* arguments and output of repo_list / repo_breakdown / main
cmd_args == <<command, scope_arg, registry_arg, orphan, all_scopes_flag, csv_file,
              json_file>>
\* what the handlers assemble and write, and how the process ended
io_vars == <<breakdown, output, printed, written, exit_code, interrupted>>
cli_vars == <<cmd_args, io_vars>>
\* state of the global-option scan of main
arg_vars == <<options, words, raw_args, filtered_args, global_args, ai>>

vars == <<agg_vars, cli_vars, arg_vars>>

(* ------------------------ dict and record helpers ----------------------- *)
\* dict.get(field, default)
Get(d, field, default) == IF d[field] = Absent THEN default ELSE d[field]

\* key = f"{registry}/{name}" with the 'unknown' sentinel for a missing field
Key(repo) == Get(repo, "registry", "unknown") \o "/" \o Get(repo, "name", "unknown")

\* The (registry, name) identity of the data model, sentinel applied.
Identity(repo) == <<Get(repo, "registry", "unknown"), Get(repo, "name", "unknown")>>

Keys(m) == { m[x].key : x \in 1..Len(m) }
HasKey(m, k) == k \in Keys(m)
IndexOf(m, k) == CHOOSE x \in 1..Len(m) : m[x].key = k
Item(m, k) == m[IndexOf(m, k)]

\* repo_map[key] = {"data": repo, "scopes": scopes}: a new key is appended,
\* an existing key keeps its position and gets the new value
SetItem(m, k, repo, scopes) ==
    LET e == [key |-> k, data |-> repo, scopes |-> scopes]
    IN  IF HasKey(m, k) THEN [m EXCEPT ![IndexOf(m, k)] = e] ELSE Append(m, e)

\* mutant: an entry is seeded with no scope at all
SeedScopesEmpty == <<>>

\* "scopes": ["Global"]
SeedScopes == <<"Global">>

\* one iteration of the step-1 loop
SeedEntry(m, repo) == SetItem(m, Key(repo), repo, SeedScopes)

\* mutant: the scope is appended without the membership test
AddScopeAlways(scopes, scope_name) == Append(scopes, scope_name)

\* if scope_name not in scopes: scopes.append(scope_name)
AddScope(scopes, scope_name) ==
    IF scope_name \in Range(scopes) THEN scopes ELSE Append(scopes, scope_name)

\* one iteration of the inner step-3 loop: annotate an existing entry, leave
\* the map alone otherwise
ApplyRecord(m, scope_name, repo) ==
    LET k == Key(repo)
    IN  IF HasKey(m, k)
        THEN [m EXCEPT ![IndexOf(m, k)].scopes = AddScope(@, scope_name)]
        ELSE m

\* app_scopes = [s for s in all_scopes if s.get("name") != "Global"]
IsAppScope(s) == Get(s, "name", None) # "Global"
AppScopes(listing) == SelectSeq(listing, IsAppScope)

\* a printed line: the source line of the print and what it names
Line(n, scope, key) == [line |-> n, scope |-> scope, key |-> key]
Emit(cond, lines) == IF cond THEN out \o lines ELSE out

Call(fn, scope) == [fn |-> fn, scope |-> scope]

\* mutant: a lookup that raises ends the step-3 loop
AfterLookupErrorBreak(idx) == Len(app_scopes) + 1

\* mutant: a lookup that raises is tried again
AfterLookupErrorRetry(idx) == idx

\* where the step-3 loop goes after a lookup raised: the next scope
AfterLookupError(idx) == idx + 1

\* mutant: the exception of a foundational fetch is swallowed and step 3 runs
AfterFetchErrorSwallowed == "loop"

\* where control goes when a foundational fetch raised: out of the function
AfterFetchError == "raised"

\* Python truthiness of a str-or-None argument
Truthy(s) == s # None /\ s # ""

\* mutant: the orphan filter tests membership of "Global" instead of equality
FilterRepositoriesHasGlobal(m, ftype, scope_name) ==
    IF ftype = "orphaned"
    THEN SelectSeq(m, LAMBDA e : "Global" \in Range(e.scopes))
    ELSE IF ftype = "scope" /\ Truthy(scope_name)
    THEN SelectSeq(m, LAMBDA e : scope_name \in Range(e.scopes))
    ELSE m

\* mutant: the scope filter tests equality with [scope_name] instead of membership
FilterRepositoriesExactScope(m, ftype, scope_name) ==
    IF ftype = "orphaned"
    THEN SelectSeq(m, LAMBDA e : e.scopes = <<"Global">>)
    ELSE IF ftype = "scope" /\ Truthy(scope_name)
    THEN SelectSeq(m, LAMBDA e : e.scopes = <<scope_name>>)
    ELSE m

\* filter_repositories(repo_map, filter_type, scope_name)
FilterRepositories(m, ftype, scope_name) ==
    IF ftype = "orphaned"
    THEN SelectSeq(m, LAMBDA e : e.scopes = <<"Global">>)
    ELSE IF ftype = "scope" /\ Truthy(scope_name)
    THEN SelectSeq(m, LAMBDA e : scope_name \in Range(e.scopes))
    ELSE m

\* (filter_type, scope_name) pairs filter_repositories is called with
FilterArgs ==
    { <<"all", None>>, <<"orphaned", None>>, <<"scope", None>>, <<"scope", "">>,
      <<"scope", "Global">>, <<"scope", "team-a">>, <<"scope", "team-b">> }

(* --------- build_repository_scope_map as a function of its inputs ------- *)
\* step 1: the loop over all_repos
RECURSIVE SeedAll(_, _)
SeedAll(m, repos) ==
    IF repos = <<>> THEN m ELSE SeedAll(SeedEntry(m, Head(repos)), Tail(repos))

\* step 3: the inner loop over the repositories one lookup returned
RECURSIVE ApplyAll(_, _, _)
ApplyAll(m, scope_name, repos) ==
    IF repos = <<>> THEN m
    ELSE ApplyAll(ApplyRecord(m, scope_name, Head(repos)), scope_name, Tail(repos))

\* step 3: the loop over app_scopes; a lookup that raised contributes nothing
RECURSIVE Annotate(_, _, _)
Annotate(m, scopes, responses) ==
    IF scopes = <<>> THEN m
    ELSE LET scope_name == Get(Head(scopes), "name", None)
             r == responses[scope_name]
         IN  Annotate(IF r.status = "ok" THEN ApplyAll(m, scope_name, r.value) ELSE m,
                      Tail(scopes), responses)

\* the map returned for a given inventory, scope listing and lookup responses
BuildRepositoryScopeMap(inventory, listing, responses) ==
    Annotate(SeedAll(<<>>, inventory), AppScopes(listing), responses)

(* ------------------------- sorting and rounding ------------------------- *)
\* The strings that get compared, in Python's (code point) order.
StrOrder ==
    << "", "Global", "a", "a/b", "a/b/c", "b/c", "c", "r/a", "r/b", "r/c", "r/d",
       "team-a", "team-b", "unknown/c" >>
Rank(s) == CHOOSE k \in 1..Len(StrOrder) : StrOrder[k] = s

\* sorted(seq, key=K) where K yields a number: ascending and stable
SortedBy(seq, K(_)) ==
    LET n == Len(seq)
        before(m, k) == K(seq[m]) < K(seq[k]) \/ (K(seq[m]) = K(seq[k]) /\ m < k)
        pos(k) == Cardinality({ m \in 1..n : before(m, k) }) + 1
    IN  [p \in 1..n |-> seq[CHOOSE k \in 1..n : pos(k) = p]]

\* mutant: the list is left in the order it arrived
SortedByNameUnsorted(repos) == repos

\* sorted(repos, key=lambda x: x.get("name", ""))
SortedByName(repos) == SortedBy(repos, LAMBDA x : Rank(Get(x, "name", "")))

\* sorted(list of strings)
SortedStrings(seq) == SortedBy(seq, Rank)

\* n/d rounded to the nearest integer, ties to the even one (round, '.1f')
RoundDiv(n, d) ==
    LET q == n \div d
        r == n % d
    IN  IF 2 * r < d THEN q
        ELSE IF 2 * r > d THEN q + 1
        ELSE IF q % 2 = 0 THEN q ELSE q + 1

\* mutant: the percentage is cut, not rounded
Round2Truncated(part, whole) == (part * 10000) \div whole

\* round(part / whole * 100, 2), in hundredths of a percent
Round2(part, whole) == RoundDiv(part * 10000, whole)

\* f"{x:.1f}" of a value held in hundredths, in tenths
Fmt1(hundredths) == RoundDiv(hundredths, 10)

\* f"{part / whole * 100:.1f}", in tenths of a percent
Percent1(part, whole) == RoundDiv(part * 1000, whole)

(* ------------------- repo_breakdown: the statistics --------------------- *)
\* mutant: a scope met again keeps the count 1
CountScopesOnce(counts, scopes) ==
    [s \in DOMAIN counts \cup Range(scopes) |-> 1]

\* for repo_scope in repo_data["scopes"]: scope_counts[repo_scope] = ... + 1
RECURSIVE CountScopes(_, _)
CountScopes(counts, scopes) ==
    IF scopes = <<>> THEN counts
    ELSE LET s == Head(scopes)
         IN  CountScopes(IF s \in DOMAIN counts THEN [counts EXCEPT ![s] = @ + 1]
                         ELSE counts @@ (s :> 1),
                         Tail(scopes))

\* for repo_data in filtered_map.values(): ...
RECURSIVE ScopeCounts(_, _)
ScopeCounts(counts, m) ==
    IF m = <<>> THEN counts
    ELSE ScopeCounts(CountScopes(counts, Head(m).scopes), Tail(m))

\* [... for k, v in filtered_map.items() if v["scopes"] == ["Global"]]
Orphaned(m) == SelectSeq(m, LAMBDA e : e.scopes = <<"Global">>)

\* [k for k, v in filtered_map.items() if scope_name in v["scopes"]]
KeysInScope(m, scope_name) ==
    LET hits == SelectSeq(m, LAMBDA e : scope_name \in Range(e.scopes))
    IN  [x \in 1..Len(hits) |-> hits[x].key]

\* ... if total_repos > 0 else 0
OrphanedPercentage(orphaned_repos, total_repos) ==
    IF total_repos > 0 THEN Round2(orphaned_repos, total_repos) ELSE 0

\* the breakdown dict; scope_counts and scope_details are keyed by scope name
Breakdown(m) ==
    LET total_repos == Len(m)
        orphaned_repos == Len(Orphaned(m))
        scoped_repos == total_repos - orphaned_repos
        scope_counts == ScopeCounts(<<>>, m)
        orphans == Orphaned(m)
    IN  [ summary |->
            [ total_repositories |-> total_repos,
              orphaned_repositories |-> orphaned_repos,
              repositories_with_app_scopes |-> scoped_repos,
              orphaned_percentage |-> OrphanedPercentage(orphaned_repos, total_repos) ],
          scope_counts |-> scope_counts,
          scope_details |->
            [ s \in DOMAIN scope_counts \ {"Global"} |->
                [ count |-> scope_counts[s],
                  repositories |-> SortedStrings(KeysInScope(m, s)) ] ],
          orphaned_repositories |->
            SortedStrings([x \in 1..Len(orphans) |-> orphans[x].key]) ]

(* ------------------------------ actions -------------------------------- *)
\* repo_list is not what runs: its arguments have their defaults
NoListArgs ==
    /\ scope_arg = None
    /\ registry_arg = None
    /\ orphan = FALSE
    /\ all_scopes_flag = FALSE
    /\ csv_file = None
    /\ json_file = None

\* nothing assembled, nothing printed, the process is running
NoOutput ==
    /\ breakdown = None
    /\ output = <<>>
    /\ printed = <<>>
    /\ written = <<>>
    /\ exit_code = None
    /\ interrupted = FALSE

\* the global-option scan is not what runs
NoArgScan ==
    /\ options = <<>>
    /\ words = <<>>
    /\ raw_args = <<>>
    /\ filtered_args = <<>>
    /\ global_args = [verbose |-> FALSE, debug |-> FALSE, profile |-> "default"]
    /\ ai = 0

Init ==
    /\ pc = "start"
    /\ verbose \in BOOLEAN
    /\ debug \in BOOLEAN
    /\ all_repos = <<>>
    /\ ri = 1
    /\ repo_map = <<>>
    /\ all_scopes = <<>>
    /\ app_scopes = <<>>
    /\ i = 1
    /\ scope_repos = <<>>
    /\ j = 1
    /\ lookup = <<>>
    /\ calls = <<>>
    /\ out = <<>>
    /\ error = None
    /\ filter_type = None
    /\ filter_scope = None
    /\ filtered = <<>>
    /\ command = "build"
    /\ NoListArgs
    /\ NoOutput
    /\ NoArgScan

\* Step 1, the fetch: all_repos = get_all_repositories(server, token)
FetchInventory ==
    /\ pc = "start"
    /\ \E r \in InventoryOutcomes :
        /\ calls' = Append(calls, Call("get_all_repositories", None))
        /\ IF r.status = "error"
           THEN /\ pc' = AfterFetchError
                /\ error' = "inventory"
                /\ out' = Emit(verbose, <<Line(49, None, None), Line(50, None, None),
                                          Line(73, None, None)>>)
                /\ UNCHANGED all_repos
           ELSE /\ pc' = "seed"
                /\ out' = Emit(verbose, <<Line(49, None, None), Line(50, None, None)>>)
                /\ all_repos' = r.value
                /\ UNCHANGED error
    /\ UNCHANGED <<verbose, debug, ri, repo_map, all_scopes, app_scopes, i, scope_repos,
                   j, lookup, filter_type, filter_scope, filtered>>
    /\ UNCHANGED <<cli_vars, arg_vars>>

\* Step 1, one iteration of "for repo in all_repos"
Seed ==
    /\ pc = "seed"
    /\ ri <= Len(all_repos)
    /\ repo_map' = SeedEntry(repo_map, all_repos[ri])
    /\ ri' = ri + 1
    /\ UNCHANGED <<pc, verbose, debug, all_repos, all_scopes, app_scopes, i, scope_repos,
                   j, lookup, calls, out, filter_type, filter_scope,
                   filtered, error>>
    /\ UNCHANGED <<cli_vars, arg_vars>>

\* Step 2: all_scopes = get_app_scopes(server, token), then the Global filter
FetchScopes ==
    /\ pc = "seed"
    /\ ri > Len(all_repos)
    /\ \E r \in ScopesOutcomes :
        /\ calls' = Append(calls, Call("get_app_scopes", None))
        /\ IF r.status = "error"
           THEN /\ pc' = AfterFetchError
                /\ error' = "scopes"
                /\ out' = Emit(verbose, <<Line(68, None, None), Line(69, None, None),
                                          Line(87, None, None)>>)
                /\ UNCHANGED <<all_scopes, app_scopes>>
           ELSE /\ pc' = "loop"
                /\ out' = Emit(verbose, <<Line(68, None, None), Line(69, None, None),
                                          Line(82, None, None), Line(83, None, None)>>)
                /\ all_scopes' = r.value
                /\ app_scopes' = AppScopes(r.value)
                /\ UNCHANGED error
    /\ UNCHANGED <<verbose, debug, all_repos, ri, repo_map, i, scope_repos, j, lookup,
                   filter_type, filter_scope, filtered>>
    /\ UNCHANGED <<cli_vars, arg_vars>>

\* Step 3: scope_repos = get_all_repositories(server, token, scope=scope_name)
Lookup ==
    /\ pc = "loop"
    /\ i <= Len(app_scopes)
    /\ LET scope_name == Get(app_scopes[i], "name", None)
       IN  \E r \in LookupOutcomes :
            /\ scope_name \in DOMAIN lookup => r = lookup[scope_name]
            /\ lookup' = IF scope_name \in DOMAIN lookup THEN lookup
                         ELSE lookup @@ (scope_name :> r)
            /\ calls' = Append(calls, Call("get_all_repositories", scope_name))
            /\ IF r.status = "error"
               THEN /\ out' = Emit(verbose, <<Line(95, scope_name, None),
                                               Line(118, scope_name, None)>>)
                    /\ i' = AfterLookupError(i)
                    /\ UNCHANGED <<pc, scope_repos, j>>
               ELSE /\ out' = Emit(verbose, <<Line(95, scope_name, None)>>)
                    /\ scope_repos' = r.value
                    /\ j' = 1
                    /\ pc' = "scan"
                    /\ UNCHANGED i
    /\ UNCHANGED <<verbose, debug, all_repos, ri, repo_map, all_scopes, app_scopes,
                   filter_type, filter_scope,
                   filtered, error>>
    /\ UNCHANGED <<cli_vars, arg_vars>>

\* Step 3, one iteration of "for repo in scope_repos"
Scan ==
    /\ pc = "scan"
    /\ j <= Len(scope_repos)
    /\ LET scope_name == Get(app_scopes[i], "name", None)
           repo == scope_repos[j]
       IN  /\ repo_map' = ApplyRecord(repo_map, scope_name, repo)
           /\ out' = Emit(~HasKey(repo_map, Key(repo)) /\ debug,
                           <<Line(111, scope_name, Key(repo))>>)
    /\ j' = j + 1
    /\ UNCHANGED <<pc, verbose, debug, all_repos, ri, all_scopes, app_scopes, i,
                   scope_repos, lookup, calls, filter_type, filter_scope,
                   filtered, error>>
    /\ UNCHANGED <<cli_vars, arg_vars>>

\* Step 3, the end of the inner loop: on to the next scope
ScanDone ==
    /\ pc = "scan"
    /\ j > Len(scope_repos)
    /\ out' = Emit(debug, <<Line(114, Get(app_scopes[i], "name", None), None)>>)
    /\ i' = i + 1
    /\ pc' = "loop"
    /\ UNCHANGED <<verbose, debug, all_repos, ri, repo_map, all_scopes, app_scopes,
                   scope_repos, j, lookup, calls, filter_type, filter_scope,
                   filtered, error>>
    /\ UNCHANGED <<cli_vars, arg_vars>>

\* return repo_map
Return ==
    /\ pc = "loop"
    /\ i > Len(app_scopes)
    /\ out' = Emit(verbose, <<Line(123, None, None), Line(124, None, None),
                               Line(125, None, None), Line(126, None, None)>>)
    /\ pc' = "done"
    /\ UNCHANGED <<verbose, debug, all_repos, ri, repo_map, all_scopes, app_scopes, i,
                   scope_repos, j, lookup, calls, filter_type, filter_scope,
                   filtered, error>>
    /\ UNCHANGED <<cli_vars, arg_vars>>

\* a caller applies filter_repositories to the returned map
Filter ==
    /\ pc = "done"
    /\ \E a \in FilterArgs :
        /\ filter_type' = a[1]
        /\ filter_scope' = a[2]
        /\ filtered' = FilterRepositories(repo_map, a[1], a[2])
    /\ pc' = "filtered"
    /\ UNCHANGED <<verbose, debug, all_repos, ri, repo_map, all_scopes, app_scopes, i,
                   scope_repos, j, lookup, calls, out, error>>
    /\ UNCHANGED <<cli_vars, arg_vars>>

(* --------------------- repo_breakdown: the output ----------------------- *)
\* One output statement: the source line, where it writes, what it writes.
Stmt(n, stream, text) == [line |-> n, stream |-> stream, text |-> text]

\* mutant: the document is written piece by piece
JsonStmtsPiecewise(n, doc) ==
    << Stmt(n, "stdout", [opened |-> TRUE]), Stmt(n, "stdout", doc) >>

\* print(json.dumps(doc, indent=2)): the whole document in one print
JsonStmts(n, doc) == << Stmt(n, "stdout", doc) >>

\* the elements of S as a sequence ascending in K (K is one-to-one on S)
SortedSet(S, K(_)) ==
    [p \in 1..Cardinality(S) |->
        CHOOSE s \in S : Cardinality({ u \in S : K(u) < K(s) }) = p - 1]

\* sorted(scope_counts.items(), key=lambda x: (x[0] != "Global", x[0]))
GlobalFirst(scope_name) == IF scope_name = "Global" THEN 0 ELSE Rank(scope_name)

\* the rows of the "Metric / Count / Percentage" table
SummaryRows(b) ==
    << <<"Total Repositories", b.summary.total_repositories, "100%">>,
       <<"Orphaned (Global only)", b.summary.orphaned_repositories,
         Fmt1(b.summary.orphaned_percentage)>>,
       <<"With App Scopes", b.summary.repositories_with_app_scopes,
         Fmt1(10000 - b.summary.orphaned_percentage)>> >>

\* the rows of the "Scope / Repository Count / Percentage" table
ScopeRows(b) ==
    LET sorted_scopes == SortedSet(DOMAIN b.scope_counts, GlobalFirst)
        total_repos == b.summary.total_repositories
    IN  [x \in 1..Len(sorted_scopes) |->
            LET count == b.scope_counts[sorted_scopes[x]]
            IN  <<sorted_scopes[x], count,
                  IF total_repos > 0 THEN Percent1(count, total_repos) ELSE 0>>]

\* "Output handling": the exports, then the tables or the JSON document
BreakdownOutput(b, v, csv, json) ==
    (IF Truthy(csv)
     THEN <<Stmt(379, "csv", b)>> \o (IF v THEN <<Stmt(381, "stdout", csv)>> ELSE <<>>)
     ELSE <<>>)
    \o
    (IF Truthy(json)
     THEN <<Stmt(384, "json", b)>> \o (IF v THEN <<Stmt(386, "stdout", json)>> ELSE <<>>)
     ELSE <<>>)
    \o
    (IF v
     THEN << Stmt(390, "stdout", "header"), Stmt(402, "stdout", SummaryRows(b)),
             Stmt(404, "stdout", "header"), Stmt(419, "stdout", ScopeRows(b)) >>
          \o (IF b.summary.orphaned_repositories > 0
              THEN << Stmt(422, "stdout", << b.summary.orphaned_repositories,
                                            Fmt1(b.summary.orphaned_percentage) >>),
                      Stmt(423, "stdout", "hint") >>
              ELSE <<>>)
     ELSE JsonStmts(426, b))

\* Repositories and assignments the maps handed to the statistics are made of.
BreakdownRecords == { [registry |-> "r", name |-> n] : n \in {"a", "b", "c", "d"} }
ScopeLists ==
    { <<"Global">>, <<"Global", "team-a">>, <<"Global", "team-b">>,
      <<"Global", "team-a", "team-b">>, <<"Global", "team-b", "team-a">> }
BreakdownEntries ==
    { [key |-> Key(r), data |-> r, scopes |-> s] : r \in BreakdownRecords, s \in ScopeLists }
\* maps build_repository_scope_map can return: one entry per key
BreakdownMaps ==
    { m \in SeqsUpTo(BreakdownEntries, MaxEntries) :
        \A x, y \in 1..Len(m) : x # y => m[x].key # m[y].key }

\* repo_breakdown right after build_repository_scope_map has returned
InitBreakdown ==
    /\ pc = "done"
    /\ verbose \in BOOLEAN
    /\ debug = FALSE
    /\ all_repos = <<>>
    /\ ri = 1
    /\ repo_map \in BreakdownMaps
    /\ all_scopes = <<>>
    /\ app_scopes = <<>>
    /\ i = 1
    /\ scope_repos = <<>>
    /\ j = 1
    /\ lookup = <<>>
    /\ calls = <<>>
    /\ out = <<>>
    /\ error = None
    /\ filter_type = None
    /\ filter_scope = None
    /\ filtered = <<>>
    /\ command = "breakdown"
    /\ scope_arg = None
    /\ registry_arg = None
    /\ orphan = FALSE
    /\ all_scopes_flag = FALSE
    /\ csv_file \in {None, "out.csv"}
    /\ json_file \in {None, "out.json"}
    /\ NoOutput
    /\ NoArgScan

\* repo_breakdown, from "filtered_map = repo_map" to the breakdown dict complete
BreakdownCompute ==
    /\ pc = "done"
    /\ command = "breakdown"
    /\ breakdown' = Breakdown(repo_map)
    /\ output' = BreakdownOutput(Breakdown(repo_map), verbose, csv_file, json_file)
    /\ pc' = "emit"
    /\ UNCHANGED <<verbose, debug, all_repos, ri, repo_map, all_scopes, app_scopes, i,
                   scope_repos, j, lookup, calls, out, error, filter_type, filter_scope,
                   filtered>>
    /\ UNCHANGED <<cmd_args, printed, written, exit_code, interrupted>>
    /\ UNCHANGED arg_vars

\* the next output statement of the handler runs
Write ==
    /\ pc = "emit"
    /\ output # <<>>
    /\ IF Head(output).stream = "stdout"
       THEN /\ printed' = Append(printed, Head(output))
            /\ UNCHANGED written
       ELSE /\ written' = Append(written, Head(output))
            /\ UNCHANGED printed
    /\ output' = Tail(output)
    /\ UNCHANGED <<agg_vars, cmd_args, breakdown, exit_code, interrupted, arg_vars>>

\* the handler returns to main and main ends
Finish ==
    /\ pc = "emit"
    /\ output = <<>>
    /\ pc' = "end"
    /\ exit_code' = 0
    /\ UNCHANGED <<verbose, debug, all_repos, ri, repo_map, all_scopes, app_scopes, i,
                   scope_repos, j, lookup, calls, out, error, filter_type, filter_scope,
                   filtered>>
    /\ UNCHANGED <<cmd_args, breakdown, output, printed, written, interrupted>>
    /\ UNCHANGED arg_vars

NextBreakdown ==
    \/ BreakdownCompute
    \/ Write
    \/ Finish

SpecBreakdown == InitBreakdown /\ [][NextBreakdown]_vars

(* ------------------------- repo_list and main --------------------------- *)
\* a collaborator call that is given the registry argument
CallR(fn, scope, registry) == [fn |-> fn, scope |-> scope, registry |-> registry]

\* mutant: a scope argument is looked at before orphan and all_scopes
ListBranchScopeFirst(o, a, s) ==
    IF Truthy(s) /\ s # "Global" THEN "bypass"
    ELSE IF o \/ a THEN "start" ELSE "simple"

\* if orphan or all_scopes: ... elif scope and scope != "Global": ... else: ...
ListBranch(o, a, s) ==
    IF o \/ a THEN "start"
    ELSE IF Truthy(s) /\ s # "Global" THEN "bypass" ELSE "simple"

\* sorted(filtered.items(), key=lambda x: x[1]["data"].get("name", ""))
SortedItems(m) == SortedBy(m, LAMBDA e : Rank(Get(e.data, "name", "")))

\* repo_data = value["data"].copy(); repo_data["scopes"] = value["scopes"]
Annotated(e) == ("scopes" :> e.scopes) @@ e.data

\* the JSON document of the aggregation branch
ListDocument(m) ==
    LET sorted_items == SortedItems(m)
    IN  [ count |-> Len(m),
          repositories |-> [x \in 1..Len(sorted_items) |-> Annotated(sorted_items[x])] ]

\* the rows of the table of the aggregation branch
ListRows(m, a) ==
    LET sorted_items == SortedItems(m)
    IN  [x \in 1..Len(sorted_items) |->
            LET repo == sorted_items[x].data
                scopes == sorted_items[x].scopes
            IN  IF a
                THEN << Get(repo, "name", "N/A"), Get(repo, "registry", "N/A"),
                        SortedStrings(scopes), Len(scopes) >>
                ELSE << Get(repo, "name", "N/A"), Get(repo, "registry", "N/A") >>]

\* "Format output" of the aggregation branch
ListOutput(m, v, o, a) ==
    IF v
    THEN << Stmt(193, "stdout", ListRows(m, a)), Stmt(194, "stdout", Len(m)) >>
         \o (IF o THEN <<Stmt(197, "stdout", "note")>> ELSE <<>>)
    ELSE JsonStmts(213, ListDocument(m))

\* the rows of the table of a direct listing
RepoRows(repos) ==
    LET sorted_repos == SortedByName(repos)
    IN  [x \in 1..Len(sorted_repos) |->
            << Get(sorted_repos[x], "name", "N/A"), Get(sorted_repos[x], "registry", "N/A") >>]

\* the output of the scope-filtered listing, r being the collaborator's outcome
BypassOutput(r, v, s) ==
    IF r.status = "error"
    THEN IF v THEN <<Stmt(255, "stdout", s)>> ELSE <<Stmt(257, "stdout", [error |-> "exception"])>>
    ELSE IF v
         THEN IF r.value # <<>>
              THEN << Stmt(240, "stdout", RepoRows(r.value)),
                      Stmt(241, "stdout", <<s, Len(r.value)>>) >>
              ELSE << Stmt(243, "stdout", s) >>
         ELSE JsonStmts(251, [ scope |-> s, count |-> Len(r.value),
                               repositories |-> SortedByName(r.value) ])

\* the output of the simple listing
SimpleOutput(r, v) ==
    IF r.status = "error"
    THEN IF v THEN <<Stmt(298, "stdout", "error")>>
         ELSE <<Stmt(300, "stdout", [error |-> "exception"])>>
    ELSE IF v
         THEN IF r.value # <<>>
              THEN << Stmt(284, "stdout", RepoRows(r.value)),
                      Stmt(285, "stdout", Len(r.value)) >>
              ELSE << Stmt(287, "stdout", "none") >>
         ELSE JsonStmts(294, [ count |-> Len(r.value),
                               repositories |-> SortedByName(r.value) ])

\* What a direct listing call can return: any records, a name may be missing.
ListedRecords == RepoRecords \cup { [registry |-> "a", name |-> Absent] }
ListedOutcomes == {Raised} \cup { Returned(l) : l \in SeqsUpTo(ListedRecords, MaxRepos) }

\* main at "Execute commands", credentials and token obtained
InitCli ==
    /\ pc = "main"
    /\ verbose \in BOOLEAN
    /\ debug = FALSE
    /\ all_repos = <<>>
    /\ ri = 1
    /\ repo_map = <<>>
    /\ all_scopes = <<>>
    /\ app_scopes = <<>>
    /\ i = 1
    /\ scope_repos = <<>>
    /\ j = 1
    /\ lookup = <<>>
    /\ calls = <<>>
    /\ out = <<>>
    /\ error = None
    /\ filter_type = None
    /\ filter_scope = None
    /\ filtered = <<>>
    /\ command \in {"list", "breakdown"}
    /\ IF command = "list"
       THEN /\ scope_arg \in {None, "Global", "team-a"}
            /\ registry_arg \in {None, "a"}
            /\ orphan \in BOOLEAN
            /\ all_scopes_flag \in BOOLEAN
            /\ csv_file = None
            /\ json_file = None
       ELSE /\ NoListArgs
    /\ NoOutput
    /\ NoArgScan

\* main calls the handler of the command; repo_list picks its branch
Dispatch ==
    /\ pc = "main"
    /\ IF command = "list"
       THEN /\ pc' = ListBranch(orphan, all_scopes_flag, scope_arg)
            /\ out' = Emit(debug, <<Line(693, None, None)>>)
       ELSE /\ pc' = "start"
            /\ out' = Emit(debug, <<Line(709, None, None)>>)
    /\ UNCHANGED <<verbose, debug, all_repos, ri, repo_map, all_scopes, app_scopes, i,
                   scope_repos, j, lookup, calls, error, filter_type, filter_scope,
                   filtered>>
    /\ UNCHANGED <<cli_vars, arg_vars>>

\* the aggregation branch, from "Apply filters" to the output assembled
ListFormat ==
    /\ pc = "done"
    /\ command = "list"
    /\ LET m == IF orphan THEN FilterRepositories(repo_map, "orphaned", None) ELSE repo_map
       IN  /\ filtered' = m
           /\ output' = ListOutput(m, verbose, orphan, all_scopes_flag)
    /\ filter_type' = IF orphan THEN "orphaned" ELSE None
    /\ pc' = "emit"
    /\ UNCHANGED <<verbose, debug, all_repos, ri, repo_map, all_scopes, app_scopes, i,
                   scope_repos, j, lookup, calls, out, error, filter_scope>>
    /\ UNCHANGED <<cmd_args, breakdown, printed, written, exit_code, interrupted>>
    /\ UNCHANGED arg_vars

\* the efficient path: one scope-filtered listing call, failure caught here
BypassFetch ==
    /\ pc = "bypass"
    /\ \E r \in ListedOutcomes :
        /\ calls' = Append(calls, CallR("get_all_repositories", scope_arg, registry_arg))
        /\ scope_repos' = r.value
        /\ output' = BypassOutput(r, verbose, scope_arg)
    /\ out' = Emit(verbose, <<Line(218, scope_arg, None)>>)
    /\ pc' = "emit"
    /\ UNCHANGED <<verbose, debug, all_repos, ri, repo_map, all_scopes, app_scopes, i,
                   j, lookup, error, filter_type, filter_scope, filtered>>
    /\ UNCHANGED <<cmd_args, breakdown, printed, written, exit_code, interrupted>>
    /\ UNCHANGED arg_vars

\* the simple listing: one listing call with the registry, failure caught here
SimpleFetch ==
    /\ pc = "simple"
    /\ \E r \in ListedOutcomes :
        /\ calls' = Append(calls, CallR("get_all_repositories", None, registry_arg))
        /\ all_repos' = r.value
        /\ output' = SimpleOutput(r, verbose)
    /\ out' = Emit(verbose, <<Line(262, None, None)>>)
    /\ pc' = "emit"
    /\ UNCHANGED <<verbose, debug, ri, repo_map, all_scopes, app_scopes, i, scope_repos,
                   j, lookup, error, filter_type, filter_scope, filtered>>
    /\ UNCHANGED <<cmd_args, breakdown, printed, written, exit_code, interrupted>>
    /\ UNCHANGED arg_vars

\* except Exception in main: the error is printed, sys.exit(1)
MainError ==
    /\ pc = "raised"
    /\ printed' = Append(printed, IF verbose THEN Stmt(719, "stdout", error)
                                  ELSE Stmt(723, "stdout", [error |-> "exception"]))
    /\ exit_code' = 1
    /\ pc' = "exited"
    /\ UNCHANGED <<verbose, debug, all_repos, ri, repo_map, all_scopes, app_scopes, i,
                   scope_repos, j, lookup, calls, out, error, filter_type, filter_scope,
                   filtered>>
    /\ UNCHANGED <<cmd_args, breakdown, output, written, interrupted>>
    /\ UNCHANGED arg_vars

\* positions inside the try block of main
Running ==
    { "main", "start", "seed", "loop", "scan", "done", "raised", "bypass", "simple", "emit" }

\* A KeyboardInterrupt is delivered: except KeyboardInterrupt in main prints
\* a notice when verbose and calls sys.exit(0); the process and its memory
\* are gone, what was written stays.
Interrupt ==
    /\ pc \in Running
    /\ interrupted' = TRUE
    /\ printed' = IF verbose THEN Append(printed, Stmt(715, "stdout", "interrupted"))
                  ELSE printed
    /\ exit_code' = 0
    /\ pc' = "exited"
    /\ all_repos' = <<>>
    /\ ri' = 1
    /\ repo_map' = <<>>
    /\ all_scopes' = <<>>
    /\ app_scopes' = <<>>
    /\ i' = 1
    /\ scope_repos' = <<>>
    /\ j' = 1
    /\ lookup' = <<>>
    /\ error' = None
    /\ filter_type' = None
    /\ filter_scope' = None
    /\ filtered' = <<>>
    /\ breakdown' = None
    /\ output' = <<>>
    /\ UNCHANGED <<verbose, debug, calls, out, cmd_args, written, arg_vars>>

NextCli ==
    \/ Dispatch
    \/ FetchInventory
    \/ Seed
    \/ FetchScopes
    \/ Lookup
    \/ Scan
    \/ ScanDone
    \/ Return
    \/ ListFormat
    \/ BypassFetch
    \/ SimpleFetch
    \/ BreakdownCompute
    \/ Write
    \/ Finish
    \/ MainError
    \/ Interrupt

SpecCli == InitCli /\ [][NextCli]_vars

(* --------------------- main: the global-option scan --------------------- *)
\* One global option as typed: a flag, or -p/--profile followed by its value.
OptionUnits ==
    { <<"-v">>, <<"--verbose">>, <<"-d">>, <<"--debug">> }
        \cup { <<p, v>> : p \in {"-p", "--profile"}, v \in {"prod", "-v"} }

\* Arguments that are not global options.
CommandWords == { "repo", "list", "--version" }

\* A command line: the option units placed among the words, both in their
\* own order; placement[k] tells whether the k-th item typed is an option.
RECURSIVE Typed(_, _, _)
Typed(opts, ws, placement) ==
    IF placement = <<>> THEN <<>>
    ELSE IF Head(placement)
         THEN Head(opts) \o Typed(Tail(opts), ws, Tail(placement))
         ELSE <<Head(ws)>> \o Typed(opts, Tail(ws), Tail(placement))

Placements(no, nw) ==
    { p \in [1..(no + nw) -> BOOLEAN] : Cardinality({ k \in 1..(no + nw) : p[k] }) = no }

\* global_args = {'verbose': False, 'debug': False, 'profile': 'default'}
DefaultGlobalArgs == [verbose |-> FALSE, debug |-> FALSE, profile |-> "default"]

\* mutant: the profile's value is not skipped
AfterProfileNoSkip(idx) == idx + 1

\* i += 1 (skip the profile value), then the loop's i += 1
AfterProfile(idx) == idx + 1 + 1

InitArgs ==
    /\ pc = "scan_args"
    /\ verbose = FALSE
    /\ debug = FALSE
    /\ all_repos = <<>>
    /\ ri = 1
    /\ repo_map = <<>>
    /\ all_scopes = <<>>
    /\ app_scopes = <<>>
    /\ i = 1
    /\ scope_repos = <<>>
    /\ j = 1
    /\ lookup = <<>>
    /\ calls = <<>>
    /\ out = <<>>
    /\ error = None
    /\ filter_type = None
    /\ filter_scope = None
    /\ filtered = <<>>
    /\ command = "main"
    /\ NoListArgs
    /\ NoOutput
    /\ options \in SeqsUpTo(OptionUnits, MaxOptions)
    /\ words \in SeqsUpTo(CommandWords, MaxWords)
    /\ \E p \in Placements(Len(options), Len(words)) : raw_args = Typed(options, words, p)
    /\ filtered_args = <<>>
    /\ global_args = DefaultGlobalArgs
    /\ ai = 0

\* if '--version' in raw_args: print the version, sys.exit(0)
Version ==
    /\ pc = "scan_args"
    /\ ai = 0
    /\ "--version" \in Range(raw_args)
    /\ out' = Append(out, Line(448, None, None))
    /\ exit_code' = 0
    /\ pc' = "exited"
    /\ UNCHANGED <<verbose, debug, all_repos, ri, repo_map, all_scopes, app_scopes, i,
                   scope_repos, j, lookup, calls, error, filter_type, filter_scope,
                   filtered>>
    /\ UNCHANGED <<cmd_args, breakdown, output, printed, written, interrupted>>
    /\ UNCHANGED arg_vars

\* one iteration of "while i < len(raw_args)"
ScanArg ==
    /\ pc = "scan_args"
    /\ "--version" \notin Range(raw_args)
    /\ ai < Len(raw_args)
    /\ LET arg == raw_args[ai + 1]
       IN  IF arg \in {"-v", "--verbose"}
           THEN /\ global_args' = [global_args EXCEPT !.verbose = TRUE]
                /\ ai' = ai + 1
                /\ UNCHANGED filtered_args
           ELSE IF arg \in {"-d", "--debug"}
           THEN /\ global_args' = [global_args EXCEPT !.debug = TRUE]
                /\ ai' = ai + 1
                /\ UNCHANGED filtered_args
           ELSE IF arg \in {"-p", "--profile"}
           THEN IF ai + 1 < Len(raw_args)
                THEN /\ global_args' = [global_args EXCEPT !.profile = raw_args[ai + 2]]
                     /\ ai' = AfterProfile(ai)
                     /\ UNCHANGED filtered_args
                ELSE /\ ai' = ai + 1
                     /\ UNCHANGED <<global_args, filtered_args>>
           ELSE /\ filtered_args' = Append(filtered_args, arg)
                /\ ai' = ai + 1
                /\ UNCHANGED global_args
    /\ UNCHANGED <<agg_vars, cli_vars, options, words, raw_args>>

\* the loop has ended: args.verbose, args.debug and args.profile are set
ScanEnd ==
    /\ pc = "scan_args"
    /\ "--version" \notin Range(raw_args)
    /\ ai >= Len(raw_args)
    /\ verbose' = global_args.verbose
    /\ debug' = global_args.debug
    /\ pc' = "parsed"
    /\ UNCHANGED <<all_repos, ri, repo_map, all_scopes, app_scopes, i,
                   scope_repos, j, lookup, calls, out, error, filter_type, filter_scope,
                   filtered>>
    /\ UNCHANGED <<cli_vars, arg_vars>>

NextArgs ==
    \/ Version
    \/ ScanArg
    \/ ScanEnd

SpecArgs == InitArgs /\ [][NextArgs]_vars


Next ==
    \/ FetchInventory
    \/ Seed
    \/ FetchScopes
    \/ Lookup
    \/ Scan
    \/ ScanDone
    \/ Return
    \/ Filter

Spec == Init /\ [][Next]_vars

(* ------------------------- vocabulary of the claims --------------------- *)
ScopeNameOf(s) == Get(s, "name", None)
AppScopeNames == { ScopeNameOf(app_scopes[x]) : x \in 1..Len(app_scopes) }
LookupFailed(s) == s \in DOMAIN lookup /\ lookup[s].status = "error"
LookupOk(s) == s \in DOMAIN lookup /\ lookup[s].status = "ok"
SomeLookupFailed == \E s \in DOMAIN lookup : LookupFailed(s)
Entries(m) == Range(m)
Finished == pc \in {"done", "filtered"}
InventoryIdentities == { Identity(r) : r \in Range(all_repos) }
\* no two records of the inventory are the same (registry, name) repository
DistinctInventory ==
    \A x, y \in 1..Len(all_repos) : x # y => Identity(all_repos[x]) # Identity(all_repos[y])
\* some lookup returned a repository that is not in the inventory
SomeAnomaly ==
    \E s \in DOMAIN lookup : \E q \in Range(lookup[s].value) :
        Identity(q) \notin InventoryIdentities
LookupCalls == SelectSeq(calls, LAMBDA c : c.fn = "get_all_repositories" /\ c.scope # None)
PermutationsOf(s) ==
    { [x \in 1..Len(s) |-> s[f[x]]] : f \in Permutations(1..Len(s)) }

(* -------------------------------- C1 ------------------------------------ *)
\* C1: in every state of the aggregation, and in the map it returns (and in
\* every view filtered from it), every entry's scope assignment contains
\* "Global", whatever the inventory, the listing and the lookups' outcomes.
C1_GlobalAlways ==
    /\ \A e \in Entries(repo_map) : "Global" \in Range(e.scopes)
    /\ \A e \in Entries(filtered) : "Global" \in Range(e.scopes)

\* a run with a failed lookup and an annotated entry has returned
C1_Witness ==
    /\ pc = "done"
    /\ SomeLookupFailed
    /\ \E e \in Entries(repo_map) : Len(e.scopes) >= 2

(* -------------------------------- C2 ------------------------------------ *)
\* C2 (as claimed): after the aggregation returns, a non-Global scope s of the
\* listing is in the assignment of an inventory repository r exactly when the
\* lookup for s succeeded and returned a record with r's (registry, name)
\* identity.
C2_Original ==
    pc = "done" =>
        \A r \in Range(all_repos) : \A s \in AppScopeNames :
            (s \in Range(Item(repo_map, Key(r)).scopes))
            <=> (/\ LookupOk(s)
                 /\ \E q \in Range(lookup[s].value) : Identity(q) = Identity(r))

(* -------------------------------- C3 ------------------------------------ *)
\* C3 (as claimed, for an inventory of pairwise different repositories): when
\* every lookup succeeded and no anomaly occurred, the returned map has as
\* many entries as the inventory has records and every record is the data of
\* exactly one entry.
C3_Original ==
    (pc = "done" /\ ~SomeLookupFailed /\ ~SomeAnomaly /\ DistinctInventory) =>
        /\ Len(repo_map) = Len(all_repos)
        /\ \A x \in 1..Len(all_repos) :
              Cardinality({ y \in 1..Len(repo_map) : repo_map[y].data = all_repos[x] }) = 1

(* -------------------------------- C4 ------------------------------------ *)
\* C4 (as claimed): processing a repository a lookup returned whose
\* (registry, name) identity is not in the inventory changes nothing in the
\* map; and the key set never changes once the inventory has been loaded.
C4_Original ==
    [][ /\ (pc = "scan" /\ j <= Len(scope_repos)
                /\ Identity(scope_repos[j]) \notin InventoryIdentities)
           => repo_map' = repo_map
        /\ pc \in {"loop", "scan", "done"} => Keys(repo_map') = Keys(repo_map) ]_vars

(* -------------------------------- C5 ------------------------------------ *)
\* C5: a lookup that raises is not fatal: the function does not raise and can
\* always go on to its return; in the returned map every inventory record has
\* its entry, no assignment holds the name of a scope whose lookup failed,
\* every scope of the listing has been looked up (those after the failed one
\* too) and every successful lookup, before or after the failure, is applied.
C5_LookupFailureNonFatal ==
    SomeLookupFailed =>
        /\ pc # "raised"
        /\ error = None
        /\ ~Finished => ENABLED (Lookup \/ Scan \/ ScanDone \/ Return)
        /\ Finished =>
            /\ \A r \in Range(all_repos) : HasKey(repo_map, Key(r))
            /\ \A e \in Entries(repo_map) : \A s \in DOMAIN lookup :
                  LookupFailed(s) => s \notin Range(e.scopes)
            /\ AppScopeNames \subseteq DOMAIN lookup
            /\ Len(LookupCalls) = Len(app_scopes)
            /\ \A s \in DOMAIN lookup : \A q \in Range(lookup[s].value) :
                  (LookupOk(s) /\ HasKey(repo_map, Key(q)))
                      => s \in Range(Item(repo_map, Key(q)).scopes)

\* the first scope's lookup failed, the second one's was applied to an entry
C5_Witness ==
    /\ pc = "done"
    /\ Len(app_scopes) = 2
    /\ LookupFailed(ScopeNameOf(app_scopes[1]))
    /\ LookupOk(ScopeNameOf(app_scopes[2]))
    /\ \E e \in Entries(repo_map) : ScopeNameOf(app_scopes[2]) \in Range(e.scopes)

(* -------------------------------- C6 ------------------------------------ *)
\* C6 (as claimed): once the aggregation has returned, every failed lookup
\* and every repository found in a scope but not in the map has left a
\* diagnostic line naming the scope, whatever verbose and debug are.
C6_Original ==
    pc = "done" =>
        /\ \A s \in DOMAIN lookup :
              LookupFailed(s) => \E l \in Range(out) : l.line = 118 /\ l.scope = s
        /\ \A s \in DOMAIN lookup : \A q \in Range(lookup[s].value) :
              (LookupOk(s) /\ ~HasKey(repo_map, Key(q)))
                  => \E l \in Range(out) : l.line = 111 /\ l.scope = s /\ l.key = Key(q)

(* -------------------------------- C7 ------------------------------------ *)
\* C7: when the inventory fetch or the scope-listing fetch raises, the
\* function raises to its caller: it never returns a map, nothing is derived
\* from the partial map, and the failing call is the last collaborator call
\* (no listing after a failed inventory fetch, no lookup after a failed
\* listing).
C7_FetchFailureFatal ==
    /\ error = "inventory" =>
          /\ pc = "raised"
          /\ calls = <<Call("get_all_repositories", None)>>
    /\ error = "scopes" =>
          /\ pc = "raised"
          /\ calls = <<Call("get_all_repositories", None), Call("get_app_scopes", None)>>
    /\ pc = "raised" => (error # None /\ filtered = <<>> /\ ~ENABLED Next)

\* the scope listing failed after a non-empty map had been seeded
C7_Witness ==
    /\ error = "scopes"
    /\ Len(repo_map) > 0

(* -------------------------------- C8 ------------------------------------ *)
\* C8 (as claimed): for the inventory and the lookup responses of this run,
\* the returned map (records and scope assignments, as emitted in the
\* "scopes" lists) is the same for every permutation of the scope listing.
C8_Original ==
    pc = "done" =>
        \A p \in PermutationsOf(all_scopes) :
            BuildRepositoryScopeMap(all_repos, p, lookup) = repo_map

(* -------------------------------- C9 ------------------------------------ *)
\* C9: filter_repositories(map, "orphaned") on a map the aggregation returned
\* gives exactly the entries whose assignment has one element, which are the
\* entries whose assignment is {"Global"}, and the map is still the one the
\* aggregation built.
C9_FilterOrphaned ==
    (pc = "filtered" /\ filter_type = "orphaned") =>
        /\ filtered = SelectSeq(repo_map, LAMBDA e : Len(e.scopes) = 1)
        /\ filtered = SelectSeq(repo_map, LAMBDA e : Range(e.scopes) = {"Global"})
        /\ repo_map = BuildRepositoryScopeMap(all_repos, all_scopes, lookup)

\* the orphan filter kept some entries and dropped others
C9_Witness ==
    /\ pc = "filtered"
    /\ filter_type = "orphaned"
    /\ 0 < Len(filtered)
    /\ Len(filtered) < Len(repo_map)

(* -------------------------------- C10 ----------------------------------- *)
\* C10 (as claimed): filter_repositories(map, "scope", s) gives exactly the
\* entries whose assignment contains s, and the whole map for s = "Global".
C10_Original ==
    (pc = "filtered" /\ filter_type = "scope") =>
        /\ filtered = SelectSeq(repo_map, LAMBDA e : filter_scope \in Range(e.scopes))
        /\ filter_scope = "Global" => filtered = repo_map

\* C10 (amended): for a non-empty scope name s, filter_repositories(map,
\* "scope", s) gives exactly the entries whose assignment contains s, and the
\* whole map for s = "Global"; for an empty or missing s it gives the whole
\* map.
C10_FilterByScope ==
    (pc = "filtered" /\ filter_type = "scope") =>
        /\ Truthy(filter_scope) =>
              filtered = SelectSeq(repo_map, LAMBDA e : filter_scope \in Range(e.scopes))
        /\ ~Truthy(filter_scope) => filtered = repo_map
        /\ filter_scope = "Global" => filtered = repo_map

\* the scope filter kept some entries and dropped others
C10_Witness ==
    /\ pc = "filtered"
    /\ filter_type = "scope"
    /\ filter_scope = "team-a"
    /\ 0 < Len(filtered)
    /\ Len(filtered) < Len(repo_map)

(* -------------------------------- C16 ----------------------------------- *)
\* C16 (amended): the collaborator calls of one aggregation are, in this
\* order, the full-inventory fetch, the scope-listing fetch, then one lookup
\* for each non-Global entry of the listing, in listing order: no lookup
\* names "Global", and a scope is looked up exactly as often as the listing
\* names it (a failed lookup is not tried again).
C16_CallOrder ==
    /\ Len(calls) >= 1 => calls[1] = Call("get_all_repositories", None)
    /\ Len(calls) >= 2 => calls[2] = Call("get_app_scopes", None)
    /\ Len(calls) <= 2 + Len(app_scopes)
    /\ \A k \in 3..Len(calls) :
          /\ calls[k] = Call("get_all_repositories", ScopeNameOf(app_scopes[k - 2]))
          /\ calls[k].scope # "Global"
    /\ Finished => Len(calls) = 2 + Len(app_scopes)
    /\ pc \in {"loop", "scan"} => Len(calls) = 2 + (IF pc = "scan" THEN i ELSE i - 1)

\* C16 (as claimed): the calls come in that order and, once the aggregation
\* has returned, every non-Global scope name of the listing has been looked
\* up exactly once, so a scope whose lookup failed was not looked up again.
C16_Original ==
    /\ Len(calls) >= 1 => calls[1] = Call("get_all_repositories", None)
    /\ Len(calls) >= 2 => calls[2] = Call("get_app_scopes", None)
    /\ \A k \in 3..Len(calls) : calls[k].fn = "get_all_repositories" /\ calls[k].scope # "Global"
    /\ Finished =>
          \A s \in AppScopeNames :
              Cardinality({ k \in 3..Len(calls) : calls[k].scope = s }) = 1

\* a listing with "Global" and a scope whose lookup failed has been processed
C16_Witness ==
    /\ pc = "done"
    /\ Len(all_scopes) = 2
    /\ Len(app_scopes) = 1
    /\ LookupFailed(ScopeNameOf(app_scopes[1]))

(* -------------------------------- C17 ----------------------------------- *)
\* C17: in every state no scope name occurs twice in a scope assignment,
\* also when a lookup returns the same repository twice or the listing names
\* the same scope twice; "Global" occurs exactly once.
C17_NoDuplicateScope ==
    \A e \in Entries(repo_map) :
        /\ Cardinality(Range(e.scopes)) = Len(e.scopes)
        /\ Cardinality({ x \in 1..Len(e.scopes) : e.scopes[x] = "Global" }) = 1

\* the listing named one scope twice and its lookup returned one repository
\* twice, and that repository carries the scope
C17_Witness ==
    /\ pc = "done"
    /\ Len(app_scopes) = 2
    /\ ScopeNameOf(app_scopes[1]) = ScopeNameOf(app_scopes[2])
    /\ LookupOk(ScopeNameOf(app_scopes[1]))
    /\ LET l == lookup[ScopeNameOf(app_scopes[1])].value
       IN  /\ Len(l) = 2
           /\ l[1] = l[2]
           /\ HasKey(repo_map, Key(l[1]))
           /\ ScopeNameOf(app_scopes[1]) \in Range(Item(repo_map, Key(l[1])).scopes)

(* -------------------------------- C15 ----------------------------------- *)
\* C15: whatever the placement of the global options among the other
\* arguments, the scan finds verbose (debug) true exactly when -v/--verbose
\* (-d/--debug) was typed, the profile is the value of the last -p/--profile
\* typed and 'default' when there is none, and the arguments left for the
\* command parser are the other arguments, in their order.
C15_GlobalOptionScan ==
    pc = "parsed" =>
        LET profiles == SelectSeq(options, LAMBDA u : u[1] \in {"-p", "--profile"})
        IN  /\ global_args.verbose = (\E u \in Range(options) : u[1] \in {"-v", "--verbose"})
            /\ global_args.debug = (\E u \in Range(options) : u[1] \in {"-d", "--debug"})
            /\ global_args.profile = IF profiles = <<>> THEN "default"
                                     ELSE profiles[Len(profiles)][2]
            /\ filtered_args = words
            /\ verbose = global_args.verbose
            /\ debug = global_args.debug

\* the options were typed after the command words, a profile among them
C15_Witness ==
    /\ pc = "parsed"
    /\ Len(words) = 2
    /\ Len(options) = 2
    /\ raw_args = words \o options[1] \o options[2]
    /\ global_args.profile = "prod"
    /\ global_args.verbose

(* -------------------------------- C11 ----------------------------------- *)
\* repo_breakdown has computed its statistics
Summarised == command = "breakdown" /\ pc \in {"emit", "end"}

\* entries of the map repo_breakdown works on whose assignment is {"Global"}
OrphanCount == Cardinality({ x \in 1..Len(repo_map) : Range(repo_map[x].scopes) = {"Global"} })

\* C11: in the summary, total_repositories is the number of map entries,
\* orphaned_repositories the number of entries assigned exactly {"Global"},
\* repositories_with_app_scopes their difference, both within 0..total; the
\* percentage (held in hundredths) is 0 for an empty map and otherwise the
\* hundredth nearest to orphaned/total*100, 50.00 for 1 of 2.
C11_Summary ==
    Summarised =>
        LET s == breakdown.summary
            total == Len(repo_map)
            pct == s.orphaned_percentage
            gap == pct * total - 10000 * OrphanCount
        IN  /\ s.total_repositories = total
            /\ s.orphaned_repositories = OrphanCount
            /\ s.repositories_with_app_scopes = total - OrphanCount
            /\ s.orphaned_repositories \in 0..total
            /\ s.repositories_with_app_scopes \in 0..total
            /\ total = 0 => pct = 0
            /\ total > 0 => (2 * gap <= total /\ -2 * gap <= total)
            /\ (total = 2 /\ OrphanCount = 1) => pct = 5000
            /\ \A x \in 1..Len(printed) :
                  printed[x].line = 426 => printed[x].text.summary = s

\* two of three repositories are orphaned: 66.67 percent, printed in the document
C11_Witness ==
    /\ Summarised
    /\ Len(repo_map) = 3
    /\ OrphanCount = 2
    /\ breakdown.summary.orphaned_percentage = 6667
    /\ \E x \in 1..Len(printed) : printed[x].line = 426

(* -------------------------------- C12 ----------------------------------- *)
\* number of entries of the map whose assignment contains the scope
Carrying(scope_name) ==
    Cardinality({ x \in 1..Len(repo_map) : scope_name \in Range(repo_map[x].scopes) })

\* C12 as stated: scope_counts always has a "Global" key, whose count is the
\* total, and every other key counts the entries carrying that scope.
C12_Original ==
    Summarised =>
        /\ "Global" \in DOMAIN breakdown.scope_counts
        /\ breakdown.scope_counts["Global"] = Len(repo_map)
        /\ \A s \in DOMAIN breakdown.scope_counts : breakdown.scope_counts[s] = Carrying(s)

\* C12: the keys of scope_counts are the scope names carried by at least one
\* entry, each mapped to the number of entries carrying it; "Global" is a key
\* exactly when the map is not empty, and its count is then the total.
C12_ScopeCounts ==
    Summarised =>
        LET scope_counts == breakdown.scope_counts
        IN  /\ DOMAIN scope_counts = UNION { Range(repo_map[x].scopes) : x \in 1..Len(repo_map) }
            /\ \A s \in DOMAIN scope_counts : scope_counts[s] = Carrying(s) /\ scope_counts[s] > 0
            /\ ("Global" \in DOMAIN scope_counts) = (repo_map # <<>>)
            /\ repo_map # <<>> => scope_counts["Global"] = Len(repo_map)
            /\ DOMAIN breakdown.scope_details = DOMAIN scope_counts \ {"Global"}
            /\ \A s \in DOMAIN breakdown.scope_details :
                  breakdown.scope_details[s].count = Carrying(s)

\* the statistics of an empty map: no key at all
C12_Witness ==
    /\ Summarised
    /\ repo_map = <<>>
    /\ DOMAIN breakdown.scope_counts = {}
    /\ breakdown.summary.total_repositories = 0

(* -------------------------------- C13 ----------------------------------- *)
\* repo_list is asked for one specific non-Global scope, nothing else
OneScopeOnly ==
    /\ command = "list"
    /\ ~orphan
    /\ ~all_scopes_flag
    /\ Truthy(scope_arg)
    /\ scope_arg # "Global"

\* the names of a list of repositories never go down
NameSorted(repos) ==
    \A x, y \in 1..Len(repos) :
        x < y => Rank(Get(repos[x], "name", "")) <= Rank(Get(repos[y], "name", ""))

\* C13: asked for one specific non-Global scope without orphan detection or
\* all-scopes annotation, repo_list never enters the aggregation: the only
\* collaborator call is one scope-filtered repository listing, there is no
\* scope listing and no per-scope lookup, and the document printed holds the
\* returned records themselves, without scopes, in the order of their names.
C13_Bypass ==
    OneScopeOnly =>
        /\ pc \in {"main", "bypass", "emit", "end", "exited"}
        /\ calls \in { <<>>, <<CallR("get_all_repositories", scope_arg, registry_arg)>> }
        /\ pc \in {"emit", "end"} => Len(calls) = 1
        /\ all_scopes = <<>>
        /\ lookup = <<>>
        /\ repo_map = <<>>
        /\ pc \in {"emit", "end"} =>
              \A x \in 1..Len(printed) :
                  /\ printed[x].line = 251 =>
                        /\ printed[x].text.scope = scope_arg
                        /\ printed[x].text.count = Len(scope_repos)
                        /\ printed[x].text.repositories \in PermutationsOf(scope_repos)
                        /\ NameSorted(printed[x].text.repositories)
                  /\ printed[x].line = 240 =>
                        Len(printed[x].text) = Len(scope_repos)

\* the listing returned two records in descending name order; both are
\* printed, in ascending order
C13_Witness ==
    /\ OneScopeOnly
    /\ pc = "end"
    /\ Len(scope_repos) = 2
    /\ ~NameSorted(scope_repos)
    /\ Len(calls) = 1
    /\ \E x \in 1..Len(printed) :
          printed[x].line = 251 /\ printed[x].text.repositories[2] = scope_repos[1]

(* -------------------------------- C18 ----------------------------------- *)
\* repo_list is called with orphan or all_scopes set
FullAggregation == command = "list" /\ (orphan \/ all_scopes_flag)

\* the calls of an aggregation that ran to its end, given the listing
AggregationCalls(listing) ==
    << Call("get_all_repositories", None), Call("get_app_scopes", None) >>
        \o [x \in 1..Len(AppScopes(listing)) |->
                Call("get_all_repositories", ScopeNameOf(AppScopes(listing)[x]))]

\* what the collaborators answered determines the map
AnsweredMap == BuildRepositoryScopeMap(all_repos, all_scopes, lookup)

DocumentShapes ==
    { {"count", "repositories"}, {"scope", "count", "repositories"}, {"error"},
      {"summary", "scope_counts", "scope_details", "orphaned_repositories"} }

\* a whole document: all of its fields, as many repositories as it counts
IsDocument(text) ==
    /\ DOMAIN text \in DocumentShapes
    /\ "count" \in DOMAIN text => text.count = Len(text.repositories)

\* the primary output holds nothing, or one whole document
NothingOrDocument ==
    \/ printed = <<>>
    \/ Len(printed) = 1 /\ IsDocument(printed[1].text)

\* the step in which the KeyboardInterrupt is handled
InterruptStep == ~interrupted /\ interrupted'

\* the result prints the handler has not executed yet
PendingPrints == SelectSeq(output, LAMBDA s : s.stream = "stdout")

====
